---- MODULE Spec2Model ----
(***************************************************************************)
(* A model of the LWW replicated key-value store of src/main.go: the       *)
(* record store (store, clock, mu), the merge engine (LWWMap.Apply), the   *)
(* read endpoint (LWWMap.Get) and the anti-entropy loop (LWWMap.sync).     *)
(*                                                                         *)
(* Clock is a Go int (64 bits).  Timestamps are drawn from -1..MaxTs and   *)
(* the clock is capped at MaxClock, or bounded by the number of writes,    *)
(* far below 2^63, so clock++ never wraps in the modelled range and the    *)
(* integers are left unbounded.                                            *)
(*                                                                         *)
(* A Go string is modelled as the sequence of its bytes, so that the       *)
(* tie-break of Apply (op.Value > existing.Value) is the bytewise          *)
(* lexicographic comparison the language defines.                          *)
(***************************************************************************)
EXTENDS Integers, Sequences, FiniteSets, TLC

\* ------------------------------------------------------------------ bounds
\* Largest timestamp a Patch carries (the smallest is the sentinel -1).
MaxTs == 2
\* Longest batch handed to Apply.
MaxBatch == 2
\* The clock's cap: no Patch is processed that would push the clock past it.
MaxClock == 3
\* Largest number of distinct Patches disseminated to the replicas.
MaxPatches == 2
\* Largest number of Patches one replica is delivered.
MaxLog == 3
\* Number of keys written to one store where the sampling is studied.
MaxKeys == 6
\* Largest number of external writes before the cluster is left to its gossip.
MaxWrites == 2

\* ------------------------------------------------------------------ domains
Keys == {"a", "b"}
\* "xy" and "y" as byte sequences (1 stands for 'x', 2 for 'y'): "y" is the greater,
\* though the shorter.
Values == {<<1, 2>>, <<2>>}
Timestamps == -1 .. MaxTs
\* The peers of node 1 (REPLICAS of replica1).
Replicas == {"replica2:8080", "replica3:8080"}
\* The nodes of the cluster.
Nodes == {"1", "2"}

\* type Patch struct { Key, Value, Timestamp }
Patch == [Key : Keys, Value : Values, Timestamp : Timestamps]

\* selectRandomKeys is called with k = 5.
SampleSize == 5

VARIABLES
    store,          \* m.store: a function from the present keys to Data
    clock,          \* m.clock
    mu,             \* m.mu: "free", or the goroutine that holds it ("Apply", "Get", "sync")
    remaining,      \* Apply: how many Patches of operations the range loop has yet to visit
    op,             \* Apply: the loop variable op, <<the Patch visited last>> (<<>>: none)
    response,       \* Get: <<the answer written>> while the handler runs (<<>>: none)
    syncPc,         \* sync: where the goroutine stands
    selectedKeys,   \* sync: the selectedKeys still to be read
    syncOps,        \* sync: operations, as built so far
    posted,         \* sync: <<the http.Post in flight>>, its peer and body (<<>>: none)
    result,         \* sync: how this iteration's http.Post ended ("none": not yet)
    crashed,        \* the Go runtime ended the process (fatal error)
    highest,        \* history: the highest timestamp Apply has been passed so far
    wrote,          \* history: the running Apply call has written m.store
    replicaStore,   \* replicas: each node's m.store
    replicaClock,   \* replicas: each node's m.clock
    patchSet,       \* replicas: the fixed set of Patches that is disseminated
    delivered,      \* replicas: history, the Patches each node's Apply was passed, in order
    writesLeft      \* replicas: the external writes still to come

nodeVars == <<store, clock, mu, remaining, op, response, syncPc, selectedKeys,
              syncOps, posted, result, crashed, highest, wrote>>
clusterVars == <<replicaStore, replicaClock, patchSet, delivered, writesLeft>>
vars == <<nodeVars, clusterVars>>

\* ------------------------------------------------------------------ helpers
Max2(a, b) == IF a >= b THEN a ELSE b

\* Go's s > t on strings: bytewise lexicographic order.
RECURSIVE StrGreater(_, _)
StrGreater(s, t) ==
    IF s = <<>> THEN FALSE
    ELSE IF t = <<>> THEN TRUE
    ELSE IF Head(s) # Head(t) THEN Head(s) > Head(t)
    ELSE StrGreater(Tail(s), Tail(t))

\* make(map[string]Data)
EmptyStore == [k \in {} |-> 0]

\* m.store[key] = data
Put(st, key, data) == [k \in DOMAIN st \cup {key} |-> IF k = key THEN data ELSE st[k]]

\* ------------------------------------------------------------------ merge engine
\* StoredData keeping a timestamp the Patch brings and resolving only the sentinel:
\* the record is stamped op.Timestamp when it is not negative.
StoredDataKept(ck, p) ==
    [Value |-> p.Value, Timestamp |-> IF p.Timestamp < 0 THEN ck ELSE p.Timestamp]

\* value := Data{Value: op.Value, Timestamp: timestamp}, where timestamp := m.clock on
\* both paths (the branch op.Timestamp < 0 assigns m.clock again).
StoredData(ck, p) == [Value |-> p.Value, Timestamp |-> ck]

\* Accepts with the timestamps compared the wrong way round: the older Patch wins.
AcceptsOlder(st, p) ==
    \/ p.Key \notin DOMAIN st
    \/ st[p.Key].Timestamp > p.Timestamp
    \/ /\ st[p.Key].Timestamp = p.Timestamp
       /\ StrGreater(p.Value, st[p.Key].Value)

\* Accepts with <= for <: a Patch of equal timestamp wins whatever its value.
AcceptsTie(st, p) ==
    \/ p.Key \notin DOMAIN st
    \/ st[p.Key].Timestamp <= p.Timestamp

\* The two conditions under which Apply writes m.store[op.Key]: the key is absent or
\* its timestamp is below op.Timestamp; or the timestamps are equal and op.Value is
\* the greater string.  Both compare with op.Timestamp as it arrived.
Accepts(st, p) ==
    \/ p.Key \notin DOMAIN st
    \/ st[p.Key].Timestamp < p.Timestamp
    \/ /\ st[p.Key].Timestamp = p.Timestamp
       /\ StrGreater(p.Value, st[p.Key].Value)

\* ClockAfter without the closing max: the clock only counts the writes.
ClockAfterNoMax(ck, accepted, p) == IF accepted THEN ck + 1 ELSE ck

\* ClockAfter with an assignment for the closing max: m.clock = op.Timestamp.
ClockAfterAssign(ck, accepted, p) == p.Timestamp

\* ClockAfter with m.clock++ outside the two branches: every Patch counts.
ClockAfterAlways(ck, accepted, p) == Max2(ck + 1, p.Timestamp)

\* m.clock++ on a write, then m.clock = max(m.clock, op.Timestamp).
ClockAfter(ck, accepted, p) == Max2(IF accepted THEN ck + 1 ELSE ck, p.Timestamp)

\* One iteration of Apply's loop on store st and clock ck.
ApplyOp(st, ck, p) ==
    [store |-> IF Accepts(st, p) THEN Put(st, p.Key, StoredData(ck, p)) ELSE st,
     clock |-> ClockAfter(ck, Accepts(st, p), p)]

\* Apply(operations): the loop over the whole batch, in batch order.
RECURSIVE ApplyAll(_, _, _)
ApplyAll(st, ck, ops) ==
    IF ops = <<>> THEN [store |-> st, clock |-> ck]
    ELSE LET r == ApplyOp(st, ck, Head(ops))
         IN ApplyAll(r.store, r.clock, Tail(ops))

\* ------------------------------------------------------------------ the node
\* NewLWWMap, before any request; the sync goroutine is about to sleep.
NodeInit ==
    /\ store = EmptyStore
    /\ clock = 0
    /\ mu = "free"
    /\ remaining = 0
    /\ op = <<>>
    /\ response = <<>>
    /\ syncPc = "sleep"
    /\ selectedKeys = <<>>
    /\ syncOps = <<>>
    /\ posted = <<>>
    /\ result = "none"
    /\ crashed = FALSE
    /\ highest = -1
    /\ wrote = FALSE

\* The cluster's variables while a single node is studied.
ClusterIdle ==
    /\ replicaStore = [n \in Nodes |-> EmptyStore]
    /\ replicaClock = [n \in Nodes |-> 0]
    /\ patchSet = {}
    /\ delivered = [n \in Nodes |-> <<>>]
    /\ writesLeft = 0

Init == NodeInit /\ ClusterIdle

\* Apply's critical section is about to write the map: an access outside the mutex
\* now is a data race with that write.
WriterActive == mu = "Apply" /\ remaining > 0

\* LWWMap.Patch decodes a batch of n Patches and calls Apply, which takes the mutex.
\* The Patches themselves are drawn as the range loop visits them.
PatchRequest(n) ==
    /\ ~crashed
    /\ mu = "free"
    /\ mu' = "Apply"
    /\ remaining' = n
    /\ op' = <<>>
    /\ wrote' = FALSE
    /\ UNCHANGED <<store, clock, response, syncPc, selectedKeys, syncOps, posted,
                   crashed, highest, result, clusterVars>>

\* One iteration of Apply's range loop, on Patch p.
ApplyStep(p) ==
    /\ ~crashed
    /\ mu = "Apply"
    /\ remaining > 0
    /\ LET r == ApplyOp(store, clock, p)
       IN /\ r.clock <= MaxClock
          /\ store' = r.store
          /\ clock' = r.clock
    /\ remaining' = remaining - 1
    /\ op' = <<p>>
    /\ highest' = Max2(highest, p.Timestamp)
    /\ wrote' = (wrote \/ Accepts(store, p))
    /\ UNCHANGED <<mu, response, syncPc, selectedKeys, syncOps, posted, crashed,
                   result, clusterVars>>

\* The loop is over: the deferred Unlock runs and the handler answers 200.
ApplyReturn ==
    /\ ~crashed
    /\ mu = "Apply"
    /\ remaining = 0
    /\ mu' = "free"
    /\ op' = <<>>
    /\ wrote' = FALSE
    /\ UNCHANGED <<store, clock, remaining, response, syncPc, selectedKeys,
                   syncOps, posted, crashed, highest, result, clusterVars>>

\* LWWMap.Get takes the mutex.
GetLock ==
    /\ ~crashed
    /\ mu = "free"
    /\ mu' = "Get"
    /\ UNCHANGED <<store, clock, remaining, op, response, syncPc, selectedKeys,
                   syncOps, posted, crashed, highest, result, wrote, clusterVars>>

\* GetLookup without the exists test: an absent key is answered 200 with the zero Data.
GetLookupZero ==
    /\ ~crashed
    /\ mu = "Get"
    /\ response = <<>>
    /\ \/ \E key \in Keys :
            response' = IF key \in DOMAIN store
                        THEN <<[status |-> 200, key |-> key, body |-> <<store[key]>>]>>
                        ELSE <<[status |-> 200, key |-> key,
                                body |-> <<[Value |-> <<>>, Timestamp |-> 0]>>]>>
       \/ response' = <<[status |-> 400, key |-> "", body |-> <<>>]>>
    /\ UNCHANGED <<store, clock, mu, remaining, op, syncPc, selectedKeys, syncOps,
                   posted, crashed, highest, result, wrote, clusterVars>>

\* Get decodes the request and looks the key up: 200 with the Data, 404 when the key
\* is absent, 400 when the body does not decode.
GetLookup ==
    /\ ~crashed
    /\ mu = "Get"
    /\ response = <<>>
    /\ \/ \E key \in Keys :
            response' = IF key \in DOMAIN store
                        THEN <<[status |-> 200, key |-> key, body |-> <<store[key]>>]>>
                        ELSE <<[status |-> 404, key |-> key, body |-> <<>>]>>
       \/ response' = <<[status |-> 400, key |-> "", body |-> <<>>]>>
    /\ UNCHANGED <<store, clock, mu, remaining, op, syncPc, selectedKeys, syncOps,
                   posted, crashed, highest, result, wrote, clusterVars>>

\* Get returns: the deferred Unlock runs.
GetReturn ==
    /\ ~crashed
    /\ mu = "Get"
    /\ response # <<>>
    /\ mu' = "free"
    /\ response' = <<>>
    /\ UNCHANGED <<store, clock, remaining, op, syncPc, selectedKeys, syncOps,
                   posted, crashed, highest, result, wrote, clusterVars>>

\* The sequences of n distinct elements of S.
InjSeqs(S, n) == {s \in [1 .. n -> S] : \A i, j \in 1 .. n : s[i] = s[j] => i = j}

\* selectRandomKeys drawing each of its min(k, len) keys afresh from the whole map:
\* a sample with replacement.
selectRandomKeysRepeat(st, k) ==
    IF k <= 0 \/ DOMAIN st = {} THEN {<<>>}
    ELSE [1 .. (IF k < Cardinality(DOMAIN st) THEN k ELSE Cardinality(DOMAIN st))
            -> DOMAIN st]

\* What selectRandomKeys(k) may return on store st: nothing for k <= 0 or an empty
\* store; else min(k, len) keys, all of them in the map's iteration order when k
\* covers the store, the first k of a shuffle otherwise.
selectRandomKeys(st, k) ==
    IF k <= 0 \/ DOMAIN st = {} THEN {<<>>}
    ELSE InjSeqs(DOMAIN st, IF k < Cardinality(DOMAIN st) THEN k
                            ELSE Cardinality(DOMAIN st))

\* sync wakes up and logs m.store, which it reads without the mutex: racing with a
\* write of Apply, the runtime may end the process (concurrent map read and map write).
SyncLog ==
    /\ ~crashed
    /\ syncPc = "sleep"
    /\ \/ /\ syncPc' = "select"
          /\ result' = "none"
          /\ UNCHANGED crashed
       \/ /\ WriterActive
          /\ crashed' = TRUE
          /\ UNCHANGED <<syncPc, result>>
    /\ UNCHANGED <<store, clock, mu, remaining, op, response, selectedKeys, syncOps,
                   posted, highest, wrote, clusterVars>>

\* selectedKeys := m.selectRandomKeys(5): the function takes the mutex and samples
\* the keys of m.store.
SyncSelect ==
    /\ ~crashed
    /\ syncPc = "select"
    /\ mu = "free"
    /\ mu' = "sync"
    /\ selectedKeys' \in selectRandomKeys(store, SampleSize)
    /\ syncOps' = <<>>
    /\ syncPc' = "selected"
    /\ UNCHANGED <<store, clock, remaining, op, response, posted, crashed,
                   highest, result, wrote, clusterVars>>

\* SyncUnlock without the deferred Unlock: sync goes on holding the mutex.
SyncUnlockKeep ==
    /\ ~crashed
    /\ syncPc = "selected"
    /\ mu = "sync"
    /\ syncPc' = "read"
    /\ UNCHANGED <<store, clock, mu, remaining, op, response, selectedKeys, syncOps,
                   posted, crashed, highest, result, wrote, clusterVars>>

\* selectRandomKeys returns: the deferred Unlock runs, and sync goes on to build
\* operations without the mutex.
SyncUnlock ==
    /\ ~crashed
    /\ syncPc = "selected"
    /\ mu = "sync"
    /\ mu' = "free"
    /\ syncPc' = "read"
    /\ UNCHANGED <<store, clock, remaining, op, response, selectedKeys, syncOps,
                   posted, crashed, highest, result, wrote, clusterVars>>

\* data := m.store[key]; operations[i] = Patch{key, data.Value, data.Timestamp}:
\* read without the mutex, so it may race with a write of Apply.
SyncRead ==
    /\ ~crashed
    /\ syncPc = "read"
    /\ selectedKeys # <<>>
    /\ \/ /\ LET key == Head(selectedKeys)
             IN syncOps' = Append(syncOps, [Key |-> key,
                                           Value |-> store[key].Value,
                                           Timestamp |-> store[key].Timestamp])
          /\ selectedKeys' = Tail(selectedKeys)
          /\ UNCHANGED crashed
       \/ /\ WriterActive
          /\ crashed' = TRUE
          /\ UNCHANGED <<selectedKeys, syncOps>>
    /\ UNCHANGED <<store, clock, mu, remaining, op, response, syncPc, posted,
                   highest, result, wrote, clusterVars>>

\* replica := m.replicas[rand.Intn(len(m.replicas))]; http.Post(url, ..., operations).
SyncPost ==
    /\ ~crashed
    /\ syncPc = "read"
    /\ selectedKeys = <<>>
    /\ \E replica \in Replicas : posted' = <<[replica |-> replica, body |-> syncOps]>>
    /\ syncPc' = "post"
    /\ UNCHANGED <<store, clock, mu, remaining, op, response, selectedKeys, syncOps,
                   crashed, highest, result, wrote, clusterVars>>

\* SyncResult with a retry: after an error the same batch is posted again before
\* the iteration ends.
SyncResultRetry(outcome) ==
    /\ ~crashed
    /\ syncPc = "post"
    /\ result' = outcome
    /\ posted' = <<>>
    /\ syncOps' = IF outcome = "error" THEN syncOps ELSE <<>>
    /\ syncPc' = IF outcome = "error" THEN "read" ELSE "sleep"
    /\ UNCHANGED <<store, clock, mu, remaining, op, response, selectedKeys, crashed,
                   highest, wrote, clusterVars>>

\* http.Post returns an error (logged, continue), a 200 (logged) or another status:
\* in each case the body of the loop is over and the next iteration starts.
SyncResult(outcome) ==
    /\ ~crashed
    /\ syncPc = "post"
    /\ result' = outcome
    /\ posted' = <<>>
    /\ syncOps' = <<>>
    /\ syncPc' = "sleep"
    /\ UNCHANGED <<store, clock, mu, remaining, op, response, selectedKeys, crashed,
                   highest, wrote, clusterVars>>

Next ==
    \/ \E n \in 0 .. MaxBatch : PatchRequest(n)
    \/ \E p \in Patch : ApplyStep(p)
    \/ ApplyReturn
    \/ GetLock
    \/ GetLookup
    \/ GetReturn
    \/ SyncLog
    \/ SyncSelect
    \/ SyncUnlock
    \/ SyncRead
    \/ SyncPost
    \/ \E outcome \in {"error", "ok", "status"} : SyncResult(outcome)

Spec == Init /\ [][Next]_vars

\* ------------------------------------------------------------------ sampling
\* A node whose store grows beyond the sample size: local writes of fresh keys, each a
\* whole Patch request, next to the scheduler.  The sample depends on the set of keys
\* only, so the keys are written in one fixed order.
KeyNames == <<"k1", "k2", "k3", "k4", "k5", "k6", "k7", "k8">>

ManyKeys == {KeyNames[i] : i \in 1 .. MaxKeys}

\* LWWMap.Patch on the batch [{key, "y", -1}]: Apply takes the mutex, runs its loop
\* once and unlocks.
LocalWrite(key) ==
    /\ ~crashed
    /\ mu = "free"
    /\ Cardinality(DOMAIN store) < MaxKeys
    /\ key = KeyNames[Cardinality(DOMAIN store) + 1]
    /\ LET r == ApplyAll(store, clock, <<[Key |-> key, Value |-> <<2>>, Timestamp |-> -1]>>)
       IN /\ store' = r.store
          /\ clock' = r.clock
    /\ UNCHANGED <<mu, remaining, op, response, syncPc, selectedKeys, syncOps, posted,
                   result, crashed, highest, wrote, clusterVars>>

SampleNext ==
    \/ \E key \in ManyKeys : LocalWrite(key)
    \/ SyncLog
    \/ SyncSelect
    \/ SyncUnlock
    \/ SyncRead
    \/ SyncPost
    \/ \E outcome \in {"error", "ok", "status"} : SyncResult(outcome)

SpecSample == Init /\ [][SampleNext]_vars

\* ------------------------------------------------------------------ replicas
\* Independent stores that are handed Patches of one fixed set through Apply, in any
\* order, any batching and any number of times.  Timestamps are fixed inputs.

\* The Patches that carry a timestamp of their own (no local-write sentinel).
RemotePatch == {p \in Patch : p.Timestamp >= 0}

\* The sets of at least one and at most n elements of S.
SubsetsUpTo(S, n) == {T \in SUBSET S : T # {} /\ Cardinality(T) <= n}

\* Every replica is a fresh NewLWWMap; the Patch set is fixed.
ReplicaInit ==
    /\ NodeInit
    /\ replicaStore = [n \in Nodes |-> EmptyStore]
    /\ replicaClock = [n \in Nodes |-> 0]
    /\ patchSet \in SubsetsUpTo(RemotePatch, MaxPatches)
    /\ delivered = [n \in Nodes |-> <<>>]
    /\ writesLeft = 0

\* Before the dissemination starts, every replica applies the same batch: the
\* replicas start from one common state reached by Apply calls.  (Apply visits a
\* batch in order, so calls with one Patch each reach what any batches reach.)
Seed(batch) ==
    /\ \A n \in Nodes : delivered[n] = <<>>
    /\ LET n == CHOOSE m \in Nodes : TRUE
           r == ApplyAll(replicaStore[n], replicaClock[n], batch)
       IN /\ r.clock <= MaxClock
          /\ replicaStore' = [m \in Nodes |-> r.store]
          /\ replicaClock' = [m \in Nodes |-> r.clock]
    /\ UNCHANGED <<nodeVars, patchSet, delivered, writesLeft>>

\* Node n's Apply is called with a batch of Patches of the set.
Deliver(n, batch) ==
    /\ batch # <<>>
    /\ Len(delivered[n]) + Len(batch) <= MaxLog
    /\ LET r == ApplyAll(replicaStore[n], replicaClock[n], batch)
       IN /\ r.clock <= MaxClock
          /\ replicaStore' = [replicaStore EXCEPT ![n] = r.store]
          /\ replicaClock' = [replicaClock EXCEPT ![n] = r.clock]
    /\ delivered' = [delivered EXCEPT ![n] = delivered[n] \o batch]
    /\ UNCHANGED <<nodeVars, patchSet, writesLeft>>

\* The batches made of Patches of the set S.
BatchesOf(S) == UNION {[1 .. n -> S] : n \in 0 .. MaxBatch}

ReplicaNext ==
    \E n \in Nodes : \E batch \in BatchesOf(patchSet) : Deliver(n, batch)

\* Replicas that start empty.
SpecReplicas == ReplicaInit /\ [][ReplicaNext]_vars

ReplayNext ==
    \/ \E p \in Patch : Seed(<<p>>)
    \/ \E n \in Nodes : \E batch \in BatchesOf(patchSet) : Deliver(n, batch)

\* Replicas that start from a common state reached by Apply calls.
SpecReplay == ReplicaInit /\ [][ReplayNext]_vars

\* ------------------------------------------------------------------ gossip
\* A cluster in which each node receives external writes and, once the writes are
\* over, pushes its records to its peers.  A push is the sender's sync iteration and
\* the receiver's Apply in one step; a lost delivery changes nothing and is a
\* stuttering step.

\* Every replica is a fresh NewLWWMap; at most MaxWrites external writes will come.
GossipInit ==
    /\ NodeInit
    /\ replicaStore = [n \in Nodes |-> EmptyStore]
    /\ replicaClock = [n \in Nodes |-> 0]
    /\ patchSet = {}
    /\ delivered = [n \in Nodes |-> <<>>]
    /\ writesLeft \in 0 .. MaxWrites

\* LWWMap.Patch on node n with the batch [p], sent by a client.
ExternalWrite(n, p) ==
    /\ writesLeft > 0
    /\ writesLeft' = writesLeft - 1
    /\ LET r == ApplyAll(replicaStore[n], replicaClock[n], <<p>>)
       IN /\ replicaStore' = [replicaStore EXCEPT ![n] = r.store]
          /\ replicaClock' = [replicaClock EXCEPT ![n] = r.clock]
    /\ UNCHANGED <<nodeVars, patchSet, delivered>>

\* operations[i] = Patch{key, data.Value, data.Timestamp} for the sampled keys.
Operations(st, keys) ==
    [i \in 1 .. Len(keys) |-> [Key |-> keys[i],
                               Value |-> st[keys[i]].Value,
                               Timestamp |-> st[keys[i]].Timestamp]]

\* The least of the clocks and stored timestamps of a cluster.
Least(st, ck) ==
    LET numbers == {ck[n] : n \in Nodes}
                     \cup UNION {{st[n][k].Timestamp : k \in DOMAIN st[n]} : n \in Nodes}
    IN CHOOSE x \in numbers : \A y \in numbers : x <= y

\* The store st with every timestamp lowered by d.
Lowered(st, d) ==
    [k \in DOMAIN st |-> [Value |-> st[k].Value, Timestamp |-> st[k].Timestamp - d]]

\* Node sender's sync samples keys and posts their records to node peer, whose Patch
\* handler applies them.  Apply compares timestamps with each other, stamps with the
\* clock, increments it and takes a maximum, so lowering every clock and timestamp
\* of the cluster by one amount changes no later outcome; stored timestamps are
\* never negative, so no pushed Patch is taken for a local write.  The cluster is
\* therefore kept up to such a shift, with its least number at 0.
Gossip(sender, peer, keys) ==
    /\ writesLeft = 0
    /\ sender # peer
    /\ keys \in selectRandomKeys(replicaStore[sender], SampleSize)
    /\ \E r \in {ApplyAll(replicaStore[peer], replicaClock[peer],
                            Operations(replicaStore[sender], keys))} :
         \E st \in {[replicaStore EXCEPT ![peer] = r.store]} :
           \E ck \in {[replicaClock EXCEPT ![peer] = r.clock]} :
             \E d \in {Least(st, ck)} :
                /\ replicaStore' = [n \in Nodes |-> Lowered(st[n], d)]
                /\ replicaClock' = [n \in Nodes |-> ck[n] - d]
    /\ UNCHANGED <<nodeVars, patchSet, delivered, writesLeft>>

\* Some iteration of sender's sync pushes to peer.
Push(sender, peer) ==
    \E keys \in selectRandomKeys(replicaStore[sender], SampleSize) :
        Gossip(sender, peer, keys)

GossipNext ==
    \/ \E n \in Nodes : \E p \in Patch : ExternalWrite(n, p)
    \/ \E sender, peer \in Nodes : Push(sender, peer)

\* Every node's sync loop runs for ever and draws its peer at random: a push that
\* can change its peer again and again is eventually delivered.
SpecGossip ==
    /\ GossipInit
    /\ [][GossipNext]_vars
    /\ \A sender \in Nodes : \A peer \in Nodes \ {sender} : SF_vars(Push(sender, peer))

\* ------------------------------------------------------------------ properties
\* The elements of a sequence.
Range(s) == {s[i] : i \in 1 .. Len(s)}

\* s visits every element of the set S exactly once.
VisitsOnce(s, S) == Len(s) = Cardinality(S) /\ Range(s) = S

\* C1 (idempotence of Apply): from any common state reached by Apply calls, a
\* replica that was passed a batch twice in a row holds the same Store (every key's
\* value and timestamp) as a replica that was passed it once.
IdempotenceC1 ==
    \A n, m \in Nodes :
        (delivered[m] # <<>> /\ delivered[n] = delivered[m] \o delivered[m])
            => replicaStore[n] = replicaStore[m]

\* C2 (commutativity of Apply): two replicas that start in the same state and are
\* passed the Patches of one fixed set, each Patch once, in any order and any
\* batching, end with the same Store.
CommutativityC2 ==
    \A n, m \in Nodes :
        (VisitsOnce(delivered[n], patchSet) /\ VisitsOnce(delivered[m], patchSet))
            => replicaStore[n] = replicaStore[m]

\* C3 (convergence): replicas that start empty and have each been passed every
\* Patch of the set at least once, in any order and with any duplication, hold the
\* identical Store.
ConvergenceC3 ==
    (\A n \in Nodes : Range(delivered[n]) = patchSet)
        => \A n, m \in Nodes : replicaStore[n] = replicaStore[m]

\* The greater of two strings.
StrMax(s, t) == IF StrGreater(s, t) THEN s ELSE t

\* C4 (deterministic tie-break): once two Patches for the same key with equal
\* timestamps and different values have both been applied, in either order, the
\* key's stored value is the lexicographically greater of the two values.
TieBreakC4 ==
    \A n \in Nodes : \A p, q \in patchSet :
        ( /\ p.Key = q.Key
          /\ p.Timestamp = q.Timestamp
          /\ p.Value # q.Value
          /\ delivered[n] = <<p, q>> )
            => /\ p.Key \in DOMAIN replicaStore[n]
               /\ replicaStore[n][p.Key].Value = StrMax(p.Value, q.Value)

\* The step is one iteration of Apply's loop; op' holds the Patch it visited.
IsApplyStep == remaining' = remaining - 1

\* C5 (the clock dominates the observed timestamps): the clock is greater than or
\* equal to the timestamp of every Patch Apply has been passed, accepted or not.
ClockDominatesC5 == clock >= highest

\* C5's witness: a single write at clock 0 has happened and the clock stands at the
\* timestamp 2 of the Patch visited last, so the closing max moved the clock.
FastForwardC5 ==
    /\ op # <<>>
    /\ op[1].Timestamp = 2
    /\ clock = 2
    /\ highest = 2
    /\ DOMAIN store # {}
    /\ \A k \in DOMAIN store : store[k].Timestamp = 0

\* C6 (clock monotonicity): the clock starts at 0 and no step of the node, of Apply
\* (sentinel timestamps included), of Get or of the scheduler, decreases it.
ClockMonotoneC6 == clock = 0 /\ [][clock' >= clock]_vars

\* C6's witness: Apply has visited a Patch with a sentinel timestamp on a node
\* whose clock had advanced, while the scheduler was between two steps.
SentinelVisitedC6 ==
    /\ op # <<>>
    /\ op[1].Timestamp < 0
    /\ clock > 0
    /\ syncPc = "read"

\* C7 (local-write sentinel): a Patch with timestamp < 0 is stored with the node's
\* current clock c as its timestamp when the key is absent, and replaces the record
\* with {value, c} when the key is present with a stored timestamp below c.
SentinelResolvedC7 ==
    [][(IsApplyStep /\ op'[1].Timestamp < 0)
        => LET p == op'[1]
           IN (p.Key \notin DOMAIN store \/ store[p.Key].Timestamp < clock)
                => /\ p.Key \in DOMAIN store'
                   /\ store'[p.Key] = [Value |-> p.Value, Timestamp |-> clock]]_vars

\* C8 (accepted Patches keep their timestamp): when Apply accepts a Patch with
\* timestamp t >= 0 (key absent, stored timestamp < t, or stored timestamp = t and
\* the Patch's value strictly greater), the key's record is then {value, t}.
AcceptedStoredC8 ==
    [][(IsApplyStep /\ op'[1].Timestamp >= 0)
        => LET p == op'[1]
           IN ( \/ p.Key \notin DOMAIN store
                \/ store[p.Key].Timestamp < p.Timestamp
                \/ /\ store[p.Key].Timestamp = p.Timestamp
                   /\ StrGreater(p.Value, store[p.Key].Value) )
                => /\ p.Key \in DOMAIN store'
                   /\ store'[p.Key] = [Value |-> p.Value, Timestamp |-> p.Timestamp]]_vars

\* The Patch p is stale against the record rec: rec is newer, or as new with a
\* value p's does not exceed.
Stale(rec, p) ==
    \/ rec.Timestamp > p.Timestamp
    \/ /\ rec.Timestamp = p.Timestamp
       /\ ~StrGreater(p.Value, rec.Value)

\* C9 (stale Patches do not mutate the Store): a step of Apply on a Patch that is
\* stale against the key's record leaves every record as it was, and of the node's
\* state changes only the clock, to max(clock, the Patch's timestamp).
StaleNoMutationC9 ==
    [][(IsApplyStep /\ op'[1].Key \in DOMAIN store /\ Stale(store[op'[1].Key], op'[1]))
        => /\ store' = store
           /\ clock' = Max2(clock, op'[1].Timestamp)
           /\ UNCHANGED <<mu, response, crashed>>]_vars

\* C9's witness: Apply has visited a Patch with a timestamp of its own that is
\* older than the key's record, and the record holds another value.
StaleVisitedC9 ==
    /\ op # <<>>
    /\ op[1].Timestamp >= 0
    /\ op[1].Key \in DOMAIN store
    /\ store[op[1].Key].Timestamp > op[1].Timestamp
    /\ store[op[1].Key].Value # op[1].Value

\* C10 (overwrite guard): a step that changes the record of a present key is a step
\* of Apply on a Patch for that key whose timestamp is strictly greater than the
\* record's, or equal to it with a strictly greater value.
OverwriteGuardC10 ==
    [][\A k \in DOMAIN store :
         (k \notin DOMAIN store' \/ store'[k] # store[k])
            => /\ IsApplyStep
               /\ op'[1].Key = k
               /\ \/ op'[1].Timestamp > store[k].Timestamp
                  \/ /\ op'[1].Timestamp = store[k].Timestamp
                     /\ StrGreater(op'[1].Value, store[k].Value)]_vars

\* C10's witness: key "a" alone is present and its record was written at clock 1
\* by the Patch visited last.  The clock only moves on a write or on a Patch for a
\* present key, so "a" was present before that write: the record was overwritten.
OverwrittenC10 ==
    /\ DOMAIN store = {"a"}
    /\ store["a"].Timestamp = 1
    /\ clock = 2
    /\ op # <<>>
    /\ op[1].Key = "a"
    /\ op[1].Value = store["a"].Value

\* ------------------------------------------------------------------ concurrency
\* The step is Get's lookup m.store[input.Key].
IsGetLookup == response = <<>> /\ response' # <<>>

\* The step is the scheduler's key sampling inside selectRandomKeys.
IsSyncSample == syncPc = "select" /\ syncPc' = "selected"

\* The step is the scheduler's read of one sampled record, m.store[key].
IsSyncRead == Len(syncOps') = Len(syncOps) + 1

\* An Apply call is in progress, has written the Store and has Patches left to visit.
MidBatch == mu = "Apply" /\ wrote /\ remaining > 0

\* C11 (batch atomicity): no observer, Get's lookup or the scheduler's read of a
\* record it is about to send, reads the Store while an Apply call has written some
\* of its batch and has not yet visited all of it.
BatchAtomicC11 == [][(IsGetLookup \/ IsSyncRead) => ~MidBatch]_vars

\* C12 (uniform lock discipline): Get's lookup, the scheduler's key sampling, the
\* scheduler's reads of the sampled records and Apply's writes are each done by the
\* thread that holds the mutex, so no read of the Store happens while Apply holds it.
LockDisciplineC12 ==
    [][/\ IsGetLookup => mu = "Get"
       /\ IsApplyStep => mu = "Apply"
       /\ IsSyncSample => mu' = "sync"
       /\ IsSyncRead => mu = "sync"]_vars

\* ------------------------------------------------------------------ the read endpoint
\* C13 (read endpoint): a well-formed Get for key k answers exactly the stored
\* {value, timestamp} when k is present and not-found when it is absent, and no step
\* of Get changes the Store or the clock.
ReadEndpointC13 ==
    [][/\ (IsGetLookup /\ response'[1].status # 400)
            => LET k == response'[1].key
               IN /\ k \in Keys
                  /\ k \in DOMAIN store
                        => /\ response'[1].status = 200
                           /\ response'[1].body = <<store[k]>>
                  /\ k \notin DOMAIN store
                        => /\ response'[1].status = 404
                           /\ response'[1].body = <<>>
       /\ (mu = "Get" \/ mu' = "Get") => (store' = store /\ clock' = clock)]_vars

\* C13's witness: Get has answered a present key with its record, which was written
\* at a clock above 0, and the clock stands above the record's timestamp.
RecordReadC13 ==
    /\ mu = "Get"
    /\ response # <<>>
    /\ response[1].status = 200
    /\ response[1].key \in DOMAIN store
    /\ response[1].body = <<store[response[1].key]>>
    /\ response[1].body[1].Timestamp >= 1

\* ------------------------------------------------------------------ the scheduler
\* C14 (empty-store gossip iteration): an iteration that samples an empty Store
\* delivers no batch to any peer, not even an empty one.  With at most SampleSize
\* keys in the Store the batch is empty exactly when the sampled Store was.
NoEmptyBatchC14 == posted # <<>> => posted[1].body # <<>>

\* C15 (no network I/O under the lock): while the scheduler performs its outbound
\* delivery to a peer, and waits for its outcome, it does not hold the mutex.
NoPostUnderLockC15 == (syncPc = "post" \/ posted # <<>>) => mu # "sync"

\* C15's witness: a batch with a record is on its way to a peer while an Apply call
\* holds the mutex and has Patches left to visit.
PostDuringApplyC15 ==
    /\ syncPc = "post"
    /\ posted # <<>>
    /\ posted[1].body # <<>>
    /\ mu = "Apply"
    /\ remaining > 0

\* C17 (snapshot sampling): with K = 5, the key list an iteration samples holds
\* exactly min(K, number of keys in the Store) keys, pairwise distinct and all in the
\* Store as it is at the sampling; a Store of at most K keys is sampled whole.
SnapshotSamplingC17 ==
    [][IsSyncSample
        => LET n == Cardinality(DOMAIN store)
               len == Len(selectedKeys')
           IN /\ len = (IF SampleSize < n THEN SampleSize ELSE n)
              /\ \A i, j \in 1 .. len : selectedKeys'[i] = selectedKeys'[j] => i = j
              /\ \A i \in 1 .. len : selectedKeys'[i] \in DOMAIN store
              /\ n <= SampleSize => Range(selectedKeys') = DOMAIN store]_vars

\* C17's witness: the scheduler has just sampled a Store of more than K keys, and
\* holds K of them.
TruncatedSampleC17 ==
    /\ syncPc = "selected"
    /\ Cardinality(DOMAIN store) > SampleSize
    /\ Len(selectedKeys) = SampleSize

\* Every replica holds the same value and the same timestamp for every key.
Converged == \A n, m \in Nodes : replicaStore[n] = replicaStore[m]

\* C16 (eventual convergence under gossip): once the external writes have stopped,
\* with every node's scheduler running and every push delivered again and again,
\* the replicas eventually hold the same value and timestamp for every key, and
\* stay so: no later push changes a Store.
GossipConvergesC16 == <>(writesLeft = 0) => <>[]Converged

IsSyncPost == posted = <<>> /\ posted' # <<>>

\* The outcomes of http.Post that are a delivery failure: a transport error, or a
\* response whose status is not 200.
Failures == {"error", "status"}

\* C18 (a failed gossip delivery is dropped): an iteration makes at most one
\* delivery attempt, to exactly one peer; when it fails, the sender's Store and clock
\* stay as they are, nothing is sent again, and the scheduler is back at the sleep
\* that opens the next iteration.
DeliveryDroppedC18 ==
    [][/\ IsSyncPost => /\ result = "none"
                        /\ Len(posted') = 1
                        /\ posted'[1].replica \in Replicas
       /\ (syncPc = "post" /\ syncPc' # "post" /\ result' \in Failures)
            => /\ store' = store
               /\ clock' = clock
               /\ posted' = <<>>
               /\ syncPc' = "sleep"
       /\ result \in Failures => (syncPc = "sleep" /\ posted = <<>>)]_vars

\* C18's witness: the delivery of a batch failed with a transport error, the
\* scheduler is at the sleep of the next iteration, and the Store still holds the
\* record that was sent.
DeliveryFailedC18 ==
    /\ result = "error"
    /\ syncPc = "sleep"
    /\ posted = <<>>
    /\ DOMAIN store # {}
    /\ clock > 0

\* ------------------------------------------------------------------ the clock rule
\* C19 (clock update rule per Patch): a step of Apply on a Patch with timestamp t at
\* clock c leaves the clock at max(c + 1, t) when the Patch is accepted (key absent,
\* stored timestamp below t, or equal timestamps and a strictly greater value) and
\* at max(c, t) when it is rejected or a no-op.
ClockRuleC19 ==
    [][IsApplyStep
        => LET p == op'[1]
               accepted == \/ p.Key \notin DOMAIN store
                           \/ store[p.Key].Timestamp < p.Timestamp
                           \/ /\ store[p.Key].Timestamp = p.Timestamp
                              /\ StrGreater(p.Value, store[p.Key].Value)
           IN clock' = IF accepted THEN Max2(clock + 1, p.Timestamp)
                       ELSE Max2(clock, p.Timestamp)]_vars

\* C19's witness: the Patch {a, value, 0} has been applied to the empty Store at
\* clock 0: the Store holds a -> (value, 0) and the clock is 1.
FirstWriteC19 ==
    /\ op # <<>>
    /\ op[1].Key = "a"
    /\ op[1].Timestamp = 0
    /\ DOMAIN store = {"a"}
    /\ store["a"] = [Value |-> op[1].Value, Timestamp |-> 0]
    /\ clock = 1

\* C20 (stored timestamps stay below the clock): every record's timestamp is at
\* least 0 and strictly below the clock.
StoredBelowClockC20 ==
    \A k \in DOMAIN store : 0 <= store[k].Timestamp /\ store[k].Timestamp < clock

\* C20's witness: a Patch with timestamp 2 was accepted at clock 1; its record
\* carries 1, and the clock went on to 2.
StampedBelowC20 ==
    /\ op # <<>>
    /\ op[1].Timestamp = 2
    /\ op[1].Key \in DOMAIN store
    /\ store[op[1].Key] = [Value |-> op[1].Value, Timestamp |-> 1]
    /\ clock = 2

====
